---- MODULE Spec2Model ----
(***************************************************************************)
(* Model of inventory.py: a menu-driven shoe inventory kept in the global  *)
(* list shoe_list and in the text file inventory.txt.                      *)
(*                                                                         *)
(* Text is modelled as a sequence of one-character strings, so that        *)
(* str.strip, str.split, int(), str.isdigit, str.lower and the f-string    *)
(* serialisation are computed character by character as Python computes    *)
(* them.  The alphabet of the model is ASCII letters, digits, "+", "-",    *)
(* ",", " " and "\n".                                                      *)
(***************************************************************************)
EXTENDS Integers, Sequences, FiniteSets, TLC

VARIABLES
    pc,                   \* position of the main program
    file_exists,          \* os.path.exists("inventory.txt")
    file_data,            \* the characters of inventory.txt
    shoe_list,            \* the global list of Shoe objects
    country, code, product, cost,   \* locals of capture_shoes
    lowest_quantity_shoe, \* local of re_stock: position of the Shoe in shoe_list
    raised,               \* the uncaught exception that ended the process
    ev,                   \* the last call made: its arguments and what it produced
    adds, restocks        \* number of file appends / rewrites so far

vars == <<pc, file_exists, file_data, shoe_list, country, code, product, cost,
          lowest_quantity_shoe, raised, ev, adds, restocks>>

\* ---------------------------------------------------------------- bounds
MaxInitLines == 2
MaxAdds == 1
MaxRestocks == 1

\* ------------------------------------------------------- Python strings
Digits == <<"0", "1", "2", "3", "4", "5", "6", "7", "8", "9">>

IsDigitChar(c) == \E i \in 1..10 : Digits[i] = c

DigitVal(c) == (CHOOSE i \in 1..10 : Digits[i] = c) - 1

Whitespace == {" ", "\n"}

RECURSIVE LStrip(_)
LStrip(s) == IF s # << >> /\ Head(s) \in Whitespace THEN LStrip(Tail(s)) ELSE s

RECURSIVE RStrip(_)
RStrip(s) ==
    IF s # << >> /\ s[Len(s)] \in Whitespace
    THEN RStrip(SubSeq(s, 1, Len(s) - 1))
    ELSE s

\* str.strip()
Strip(s) == RStrip(LStrip(s))

RECURSIVE SplitAcc(_, _, _, _)
SplitAcc(s, sep, cur, acc) ==
    IF s = << >> THEN Append(acc, cur)
    ELSE IF Head(s) = sep
         THEN SplitAcc(Tail(s), sep, << >>, Append(acc, cur))
         ELSE SplitAcc(Tail(s), sep, Append(cur, Head(s)), acc)

\* str.split(sep)
Split(s, sep) == SplitAcc(s, sep, << >>, << >>)

\* str.isdigit()
IsDigit(s) == s # << >> /\ \A i \in 1..Len(s) : IsDigitChar(s[i])

RECURSIVE DecVal(_)
DecVal(s) == IF s = << >> THEN 0
             ELSE 10 * DecVal(SubSeq(s, 1, Len(s) - 1)) + DigitVal(s[Len(s)])

\* the digits of int(s) after the optional sign
IntBody(s) ==
    LET t == Strip(s)
    IN  IF t # << >> /\ Head(t) \in {"+", "-"} THEN Tail(t) ELSE t

\* int(s) does not raise ValueError
IntOk(s) == IsDigit(IntBody(s))

\* int(s)
IntVal(s) ==
    LET t == Strip(s)
    IN  IF t # << >> /\ Head(t) = "-" THEN 0 - DecVal(IntBody(s))
        ELSE DecVal(IntBody(s))

RECURSIVE NatToStr(_)
NatToStr(n) == IF n < 10 THEN <<Digits[n + 1]>>
               ELSE Append(NatToStr(n \div 10), Digits[(n % 10) + 1])

\* str(n) of an int, as an f-string formats it
IntToStr(n) == IF n < 0 THEN <<"-">> \o NatToStr(0 - n) ELSE NatToStr(n)

UpperLetters ==
    <<"A", "B", "C", "D", "E", "F", "G", "H", "I", "J", "K", "L", "M",
      "N", "O", "P", "Q", "R", "S", "T", "U", "V", "W", "X", "Y", "Z">>

LowerLetters ==
    <<"a", "b", "c", "d", "e", "f", "g", "h", "i", "j", "k", "l", "m",
      "n", "o", "p", "q", "r", "s", "t", "u", "v", "w", "x", "y", "z">>

\* str.lower() of one character: an upper-case letter becomes its lower-case
\* letter, every other character of the alphabet stays
LowerChar(c) ==
    IF \E i \in 1..26 : UpperLetters[i] = c
    THEN LowerLetters[CHOOSE i \in 1..26 : UpperLetters[i] = c]
    ELSE c

\* str.lower()
Lower(s) == [i \in 1..Len(s) |-> LowerChar(s[i])]

\* ----------------------------------------------------------------- Shoe
Shoe(co, cd, pr, cs, qt) ==
    [country |-> co, code |-> cd, product |-> pr, cost |-> cs, quantity |-> qt]

NoShoe == Shoe(<< >>, << >>, << >>, 0, 0)

\* f'{country},{code},{product},{cost},{quantity}\n'
FormatLine(s) ==
    s.country \o <<",">> \o s.code \o <<",">> \o s.product \o <<",">>
        \o IntToStr(s.cost) \o <<",">> \o IntToStr(s.quantity) \o <<"\n">>

Header ==
    <<"C", "o", "u", "n", "t", "r", "y", ",", "C", "o", "d", "e", ",",
      "P", "r", "o", "d", "u", "c", "t", ",", "C", "o", "s", "t", ",",
      "Q", "u", "a", "n", "t", "i", "t", "y">>

HeaderLine == Header \o <<"\n">>

\* ----------------------------------------------------- read_shoes_data
RECURSIVE LinesAcc(_, _, _)
LinesAcc(d, cur, acc) ==
    IF d = << >> THEN (IF cur = << >> THEN acc ELSE Append(acc, cur))
    ELSE IF Head(d) = "\n"
         THEN LinesAcc(Tail(d), << >>, Append(acc, Append(cur, "\n")))
         ELSE LinesAcc(Tail(d), Append(cur, Head(d)), acc)

\* the lines a text file object iterates over, each with its "\n"
FileLines(d) == LinesAcc(d, << >>, << >>)

\* the body of the for loop for one line: the list after this line
ReadLine(list, line) ==
    LET parts == Split(Strip(line), ",")
    IN  IF Len(parts) # 5 THEN list
        ELSE IF IntOk(parts[4]) /\ IntOk(parts[5])
             THEN Append(list, Shoe(parts[1], parts[2], parts[3],
                                    IntVal(parts[4]), IntVal(parts[5])))
             ELSE list

\* variant of ReadLoop: the loop ends at the first line it does not load
RECURSIVE ReadLoop_Break(_, _, _)
ReadLoop_Break(list, lines, i) ==
    IF i > Len(lines) THEN list
    ELSE IF ReadLine(list, lines[i]) = list THEN list
         ELSE ReadLoop_Break(ReadLine(list, lines[i]), lines, i + 1)

RECURSIVE ReadLoop(_, _, _)
ReadLoop(list, lines, i) ==
    IF i > Len(lines) THEN list
    ELSE ReadLoop(ReadLine(list, lines[i]), lines, i + 1)

\* read_shoes_data() raises StopIteration: next(f) on a file without lines
ReadRaises(exists, data) == exists /\ FileLines(data) = << >>

\* shoe_list after read_shoes_data() returns
read_shoes_data(list, exists, data) ==
    IF ~exists THEN list
    ELSE ReadLoop(list, FileLines(data), 2)

\* the last diagnostic read_shoes_data prints ("" when it prints none)
RECURSIVE ReadMsg(_, _, _)
ReadMsg(lines, i, msg) ==
    IF i > Len(lines) THEN msg
    ELSE LET parts == Split(Strip(lines[i]), ",")
         IN  ReadMsg(lines, i + 1,
                     IF Len(parts) # 5 THEN "skipped_malformed_line"
                     ELSE IF IntOk(parts[4]) /\ IntOk(parts[5]) THEN msg
                          ELSE "invalid_number_format")

ReadOut(exists, data) ==
    IF ~exists THEN "file_not_found" ELSE ReadMsg(FileLines(data), 2, "")

\* ------------------------------------------------------------ min / max
RECURSIVE MinScan(_, _, _)
MinScan(list, i, best) ==
    IF i > Len(list) THEN best
    ELSE MinScan(list, i + 1,
                 IF list[i].quantity < list[best].quantity THEN i ELSE best)

RECURSIVE MinScan_Last(_, _, _)
MinScan_Last(list, i, best) ==
    IF i > Len(list) THEN best
    ELSE MinScan_Last(list, i + 1,
                 IF list[i].quantity <= list[best].quantity THEN i ELSE best)

\* variant of MinShoe: the last of the Shoes with the lowest quantity
MinShoe_Last(list) == MinScan_Last(list, 2, 1)

\* min(shoe_list, key=lambda s: s.quantity), as a position in the list
MinShoe(list) == MinScan(list, 2, 1)

RECURSIVE MaxScan(_, _, _)
MaxScan(list, i, best) ==
    IF i > Len(list) THEN best
    ELSE MaxScan(list, i + 1,
                 IF list[i].quantity > list[best].quantity THEN i ELSE best)

RECURSIVE MaxScan_Last(_, _, _)
MaxScan_Last(list, i, best) ==
    IF i > Len(list) THEN best
    ELSE MaxScan_Last(list, i + 1,
                 IF list[i].quantity >= list[best].quantity THEN i ELSE best)

\* variant of MaxShoe: the last of the Shoes with the highest quantity
MaxShoe_Last(list) == MaxScan_Last(list, 2, 1)

\* max(shoe_list, key=lambda s: s.quantity), as a position in the list
MaxShoe(list) == MaxScan(list, 2, 1)

RECURSIVE SearchScan(_, _, _)
SearchScan(list, search_code, i) ==
    IF i > Len(list) THEN 0
    ELSE IF Lower(search_code) = Lower(list[i].code) THEN i
         ELSE SearchScan(list, search_code, i + 1)

RECURSIVE SearchScan_Exact(_, _, _)
SearchScan_Exact(list, search_code, i) ==
    IF i > Len(list) THEN 0
    ELSE IF search_code = list[i].code THEN i
         ELSE SearchScan_Exact(list, search_code, i + 1)

\* variant of SearchResult: the codes are compared without .lower()
SearchResult_Exact(list, search_code) == SearchScan_Exact(list, search_code, 1)

\* the item search_shoe returns, as a position in the list (0: None)
SearchResult(list, search_code) == SearchScan(list, search_code, 1)

\* variant of CodeTaken: only the last Shoe of the list is compared
CodeTaken_LastOnly(list, cd) == list # << >> /\ list[Len(list)].code = cd

\* any(item.code == code for item in shoe_list)
CodeTaken(list, cd) == \E i \in 1..Len(list) : list[i].code = cd

RECURSIVE WriteAll(_, _)
WriteAll(list, i) ==
    IF i > Len(list) THEN << >>
    ELSE FormatLine(list[i]) \o WriteAll(list, i + 1)

\* variant of RewriteData: the header line is not written
RewriteData_NoHeader(list) == WriteAll(list, 1)

\* the content re_stock writes with mode "w"
RewriteData(list) == HeaderLine \o WriteAll(list, 1)

\* the content of the file after capture_shoes appends with mode "a"
AppendData(exists, data, s) ==
    IF exists THEN data \o FormatLine(s)
    ELSE HeaderLine \o FormatLine(s)

\* [s.quantity * s.cost for each item], what value_per_item prints
Values(list) == [i \in 1..Len(list) |-> list[i].quantity * list[i].cost]

\* ------------------------------------------------------------- inputs
\* what the user types at the prompts (before .strip())
CountryInputs == { <<"U">>, <<"U", ",", "K">> }

CodeInputs == { <<"a">>, <<" ", "A", " ">> }

ProductInputs == { <<"p">> }

CostInputs == { <<"1">>, <<"x">>, <<"-", "1">> }

QuantityInputs == { <<"2">>, << >> }

RestockInputs == { <<"0">>, <<"2">>, <<"x">> }

SearchInputs == { <<"a">>, <<" ", "A">>, <<"z">> }

OptionInputs == { <<"1">>, <<"2">>, <<"3">>, <<"4">>, <<"5">>, <<"6">>,
                  <<"7">>, <<"8">>, <<"x">> }

\* data lines inventory.txt may hold when the program starts (without "\n")
InitLines ==
    { <<"U", ",", "a", ",", "p", ",", "1", ",", "2">>,
      <<"U", ",", "b", ",", "p", ",", "1", ",", "0">>,
      <<"U", ",", "A", ",", "p", ",", "3", ",", "2">>,
      <<"U", ",", "b", ",", "p", ",", "1">>,
      <<"U", ",", "b", ",", "p", ",", "x", ",", "1">>,
      <<" ", "U", ",", "Z", ",", "p", ",", "-", "1", ",", " ", "2", " ">> }

RECURSIVE SeqsUpTo(_, _)
SeqsUpTo(S, n) ==
    IF n = 0 THEN { << >> }
    ELSE LET shorter == SeqsUpTo(S, n - 1)
         IN  shorter \cup { Append(q, x) : q \in shorter, x \in S }

RECURSIVE JoinLines(_)
JoinLines(ls) ==
    IF ls = << >> THEN << >>
    ELSE IF Len(ls) = 1 THEN Head(ls)
         ELSE Head(ls) \o <<"\n">> \o JoinLines(Tail(ls))

\* contents of inventory.txt at start: a header line, then data lines; the
\* last line with or without its "\n"; or no characters at all
InitData ==
    { << >> } \cup
    { JoinLines(<<Header>> \o ls) \o nl :
        ls \in SeqsUpTo(InitLines, MaxInitLines), nl \in { << >>, <<"\n">> } }

\* -------------------------------------------------------------- program
\* op: the function called; before: shoe_list when it was called; shoe: the
\* fields capture_shoes collected; n: the number it read, or the position of
\* the Shoe it printed or returned; arg: the text it read; vals: the values
\* it printed; msg: the diagnostic it printed
Event(op, before, shoe, n, arg, vals, msg) ==
    [op |-> op, before |-> before, shoe |-> shoe, n |-> n, arg |-> arg,
     vals |-> vals, msg |-> msg]

NoEvent == Event("none", << >>, NoShoe, 0, << >>, << >>, "")

Init ==
    /\ pc = "start"
    /\ file_exists \in BOOLEAN
    /\ file_data \in (IF file_exists THEN InitData ELSE { << >> })
    /\ shoe_list = << >>
    /\ country = << >> /\ code = << >> /\ product = << >> /\ cost = 0
    /\ lowest_quantity_shoe = 0
    /\ raised = ""
    /\ ev = NoEvent
    /\ adds = 0 /\ restocks = 0

\* line 285: the module-level read_shoes_data()
Start ==
    /\ pc = "start"
    /\ ev' = Event("read_shoes_data", shoe_list, NoShoe, 0, << >>, << >>,
                   ReadOut(file_exists, file_data))
    /\ IF ReadRaises(file_exists, file_data)
       THEN /\ pc' = "crashed"
            /\ raised' = "StopIteration"
            /\ UNCHANGED shoe_list
       ELSE /\ shoe_list' = read_shoes_data(shoe_list, file_exists, file_data)
            /\ pc' = "menu"
            /\ UNCHANGED raised
    /\ UNCHANGED <<file_exists, file_data, country, code, product, cost,
                   lowest_quantity_shoe, adds, restocks>>

\* lines 311-318: the option typed is accepted
OptionOk(input_opt) ==
    IsDigit(input_opt) /\ 1 <= IntVal(input_opt) /\ IntVal(input_opt) <= 7

\* lines 321-335: the branch the option selects
Chosen(input_opt, n) ==
    pc = "menu" /\ OptionOk(input_opt) /\ IntVal(input_opt) = n

\* lines 315-318: "You have entered an incorrect value.", and the prompt again
InvalidOption ==
    /\ pc = "menu"
    /\ \E input_opt \in OptionInputs : ~OptionOk(input_opt)
    /\ UNCHANGED vars

view_all ==
    /\ \E input_opt \in OptionInputs : Chosen(input_opt, 1)
    /\ ev' = Event("view_all", << >>, NoShoe, Len(shoe_list), << >>, << >>, "")
    /\ UNCHANGED <<pc, file_exists, file_data, shoe_list, country, code,
                   product, cost, lowest_quantity_shoe, raised, adds,
                   restocks>>

\* capture_shoes, line 138
CaptureCountry ==
    /\ \E input_opt \in OptionInputs : Chosen(input_opt, 2)
    /\ adds < MaxAdds
    /\ \E inp \in CountryInputs : country' = Strip(inp)
    /\ pc' = "capture_code"
    /\ ev' = Event("capture_shoes", shoe_list, NoShoe, 0, << >>, << >>, "")
    /\ UNCHANGED <<file_exists, file_data, shoe_list, code, product, cost,
                   lowest_quantity_shoe, raised, adds, restocks>>

\* capture_shoes, lines 141-146
CaptureCode ==
    /\ pc = "capture_code"
    /\ \E inp \in CodeInputs :
          IF CodeTaken(shoe_list, Strip(inp))
          THEN UNCHANGED <<pc, code>>
          ELSE /\ code' = Strip(inp)
               /\ pc' = "capture_product"
    /\ UNCHANGED <<file_exists, file_data, shoe_list, country, product, cost,
                   lowest_quantity_shoe, raised, ev, adds, restocks>>

\* capture_shoes, line 148
CaptureProduct ==
    /\ pc = "capture_product"
    /\ \E inp \in ProductInputs : product' = Strip(inp)
    /\ pc' = "capture_cost"
    /\ UNCHANGED <<file_exists, file_data, shoe_list, country, code, cost,
                   lowest_quantity_shoe, raised, ev, adds, restocks>>

\* capture_shoes, lines 151-157
CaptureCost ==
    /\ pc = "capture_cost"
    /\ \E inp \in CostInputs :
          IF IsDigit(Strip(inp))
          THEN /\ cost' = IntVal(Strip(inp))
               /\ pc' = "capture_quantity"
          ELSE UNCHANGED <<pc, cost>>
    /\ UNCHANGED <<file_exists, file_data, shoe_list, country, code, product,
                   lowest_quantity_shoe, raised, ev, adds, restocks>>

\* capture_shoes, lines 160-179: the quantity prompt, the append to the
\* file, shoe_list.clear() and read_shoes_data()
CaptureQuantity ==
    /\ pc = "capture_quantity"
    /\ \E inp \in QuantityInputs :
          IF IsDigit(Strip(inp))
          THEN LET shoe == Shoe(country, code, product, cost,
                                IntVal(Strip(inp)))
                   data == AppendData(file_exists, file_data, shoe)
               IN  /\ file_exists' = TRUE
                   /\ file_data' = data
                   /\ shoe_list' = read_shoes_data(<< >>, TRUE, data)
                   /\ ev' = [ev EXCEPT !.shoe = shoe,
                                       !.msg = ReadOut(TRUE, data)]
                   /\ adds' = adds + 1
                   /\ pc' = "menu"
                   /\ country' = << >> /\ code' = << >>
                   /\ product' = << >> /\ cost' = 0
          ELSE UNCHANGED <<pc, file_exists, file_data, shoe_list, country,
                           code, product, cost, ev, adds>>
    /\ UNCHANGED <<lowest_quantity_shoe, raised, restocks>>

\* re_stock, lines 206-210
ReStock ==
    /\ \E input_opt \in OptionInputs : Chosen(input_opt, 3)
    /\ ev' = Event("re_stock", shoe_list, NoShoe, 0, << >>, << >>, "")
    /\ IF shoe_list = << >>
       THEN /\ pc' = "crashed"
            /\ raised' = "ValueError"
            /\ UNCHANGED lowest_quantity_shoe
       ELSE /\ restocks < MaxRestocks
            /\ lowest_quantity_shoe' = MinShoe(shoe_list)
            /\ pc' = "restock_amount"
            /\ UNCHANGED raised
    /\ UNCHANGED <<file_exists, file_data, shoe_list, country, code, product,
                   cost, adds, restocks>>

\* re_stock, lines 213-237
RestockAmount ==
    /\ pc = "restock_amount"
    /\ \E inp \in RestockInputs :
          IF IsDigit(Strip(inp))
          THEN LET restock_number == IntVal(Strip(inp))
                   list == [shoe_list EXCEPT
                              ![lowest_quantity_shoe].quantity =
                                  @ + restock_number]
               IN  /\ shoe_list' = list
                   /\ file_exists' = TRUE
                   /\ file_data' = RewriteData(list)
                   /\ ev' = [ev EXCEPT !.n = restock_number]
                   /\ restocks' = restocks + 1
                   /\ lowest_quantity_shoe' = 0
                   /\ pc' = "menu"
          ELSE UNCHANGED <<pc, file_exists, file_data, shoe_list,
                           lowest_quantity_shoe, ev, restocks>>
    /\ UNCHANGED <<country, code, product, cost, raised, adds>>

value_per_item ==
    /\ \E input_opt \in OptionInputs : Chosen(input_opt, 4)
    /\ ev' = Event("value_per_item", << >>, NoShoe, 0, << >>,
                   Values(shoe_list), "")
    /\ UNCHANGED <<pc, file_exists, file_data, shoe_list, country, code,
                   product, cost, lowest_quantity_shoe, raised, adds,
                   restocks>>

\* search_shoe and lines 330-332
search_shoe ==
    /\ \E input_opt \in OptionInputs : Chosen(input_opt, 5)
    /\ \E inp \in SearchInputs :
          LET search_code == Strip(inp)
              found == SearchResult(shoe_list, search_code)
          IN  ev' = Event("search_shoe", << >>, NoShoe, found, search_code,
                          << >>,
                          IF found = 0 THEN "no_shoe_with_code" ELSE "")
    /\ UNCHANGED <<pc, file_exists, file_data, shoe_list, country, code,
                   product, cost, lowest_quantity_shoe, raised, adds,
                   restocks>>

highest_qty ==
    /\ \E input_opt \in OptionInputs : Chosen(input_opt, 6)
    /\ IF shoe_list = << >>
       THEN /\ pc' = "crashed"
            /\ raised' = "ValueError"
            /\ ev' = Event("highest_qty", << >>, NoShoe, 0, << >>, << >>, "")
       ELSE /\ ev' = Event("highest_qty", << >>, NoShoe, MaxShoe(shoe_list),
                           << >>, << >>, "")
            /\ UNCHANGED <<pc, raised>>
    /\ UNCHANGED <<file_exists, file_data, shoe_list, country, code, product,
                   cost, lowest_quantity_shoe, adds, restocks>>

\* lines 335-337
Exit ==
    /\ \E input_opt \in OptionInputs : Chosen(input_opt, 7)
    /\ pc' = "exited"
    /\ UNCHANGED <<file_exists, file_data, shoe_list, country, code, product,
                   cost, lowest_quantity_shoe, raised, ev, adds, restocks>>

Next ==
    \/ Start
    \/ InvalidOption
    \/ view_all
    \/ CaptureCountry
    \/ CaptureCode
    \/ CaptureProduct
    \/ CaptureCost
    \/ CaptureQuantity
    \/ ReStock
    \/ RestockAmount
    \/ value_per_item
    \/ search_shoe
    \/ highest_qty
    \/ Exit

Spec == Init /\ [][Next]_vars

\* --------------------------------------------------------------- claims
\* the call op has returned to the menu loop
Returned(op) == pc \in {"menu", "exited"} /\ ev.op = op

\* positions of the Shoes of list with the lowest / highest quantity
Lowest(list) ==
    { i \in 1..Len(list) :
        \A j \in 1..Len(list) : list[i].quantity <= list[j].quantity }

Highest(list) ==
    { i \in 1..Len(list) :
        \A j \in 1..Len(list) : list[i].quantity >= list[j].quantity }

\* the least position of a non-empty set of positions
First(S) == CHOOSE i \in S : \A j \in S : i <= j

DistinctCodes(list) ==
    \A i, j \in 1..Len(list) : i # j => list[i].code # list[j].code

\* a line of the file is a data line Load accepts: 5 comma-separated
\* fields, the last two of them integers
Commas(line) == Cardinality({ i \in 1..Len(line) : line[i] = "," })

WellFormed(line) ==
    /\ Commas(line) = 4
    /\ IntOk(Split(Strip(line), ",")[4])
    /\ IntOk(Split(Strip(line), ",")[5])

RecordOf(line) ==
    LET f == Split(Strip(line), ",")
    IN  Shoe(f[1], f[2], f[3], IntVal(f[4]), IntVal(f[5]))

\* positions, among the lines after the header, of the well-formed lines
WellFormedLines(lines) == { i \in 2..Len(lines) : WellFormed(lines[i]) }

\* list is exactly the well-formed data lines of lines, in file order
IsLoadOf(list, lines) ==
    LET W == WellFormedLines(lines)
    IN  /\ Len(list) = Cardinality(W)
        /\ \A i \in W :
              list[Cardinality({ j \in W : j <= i })] = RecordOf(lines[i])

\* C1: after capture_shoes returns, shoe_list is the list it was called on,
\* in the same order, followed by one Shoe with the fields that were typed.
C1_AppendRecord ==
    Returned("capture_shoes") => shoe_list = Append(ev.before, ev.shoe)

\* C2: re_stock on a non-empty list adds the number typed to the quantity of
\* the first Shoe with the lowest quantity and changes nothing else: the
\* other Shoes, the other four fields, the length and the order stay.
C2_RestockFrame ==
    (Returned("re_stock") /\ ev.before # << >>) =>
        LET t == First(Lowest(ev.before))
        IN  /\ ev.n >= 0
            /\ Len(shoe_list) = Len(ev.before)
            /\ shoe_list[t].quantity = ev.before[t].quantity + ev.n
            /\ shoe_list[t].country = ev.before[t].country
            /\ shoe_list[t].code = ev.before[t].code
            /\ shoe_list[t].product = ev.before[t].product
            /\ shoe_list[t].cost = ev.before[t].cost
            /\ \A i \in 1..Len(shoe_list) :
                  i # t => shoe_list[i] = ev.before[i]

C2_Witness ==
    /\ Returned("re_stock")
    /\ ev.n = 2
    /\ Len(ev.before) >= 2
    /\ Cardinality(Lowest(ev.before)) >= 2
    /\ shoe_list # ev.before

\* C3: after re_stock returns, the file is the header line followed by one
\* line per Shoe of shoe_list, in order, and nothing else; loading that file
\* into an empty list gives shoe_list.
C3_RestockRoundTrip ==
    Returned("re_stock") =>
        LET lines == FileLines(file_data)
        IN  /\ file_exists
            /\ Len(lines) = Len(shoe_list) + 1
            /\ lines[1] = HeaderLine
            /\ \A i \in 1..Len(shoe_list) :
                  lines[i + 1] = FormatLine(shoe_list[i])
            /\ ~ReadRaises(file_exists, file_data)
            /\ read_shoes_data(<< >>, file_exists, file_data) = shoe_list

C3_Witness ==
    /\ Returned("re_stock")
    /\ ev.n = 2
    /\ Len(shoe_list) >= 2
    /\ \E i \in 1..Len(shoe_list) : shoe_list[i].cost < 0
    /\ \E i \in 1..Len(shoe_list) : shoe_list[i].quantity >= 2

\* C4: after read_shoes_data has read a file that has a first line, the
\* list is exactly the well-formed lines after the first, in file order; a
\* line that is not well-formed is left out and the lines after it are
\* still loaded.
C4_LoadWellFormed ==
    ((Returned("read_shoes_data") \/ Returned("capture_shoes"))
        /\ file_exists) =>
        IsLoadOf(shoe_list, FileLines(file_data))

C4_Witness ==
    /\ Returned("read_shoes_data")
    /\ file_exists
    /\ Len(FileLines(file_data)) = 3
    /\ ~WellFormed(FileLines(file_data)[2])
    /\ WellFormed(FileLines(file_data)[3])
    /\ Len(shoe_list) = 1

\* C5: with an empty shoe_list no menu action ends the process with an
\* unhandled exception.
C5_EmptyTolerated ==
    [][(pc = "menu" /\ shoe_list = << >>) => pc' # "crashed"]_vars

\* C6: read_shoes_data without a file reports it, leaves the list empty and
\* returns; capture_shoes without a file then writes the header line and the
\* data line, and the list holds exactly the new Shoe.
C6_MissingStorage ==
    [][/\ (pc = "start" /\ ~file_exists) =>
            (pc' = "menu" /\ shoe_list' = << >>
                /\ ev'.msg = "file_not_found")
       /\ (pc = "capture_quantity" /\ pc' = "menu" /\ ~file_exists) =>
            (/\ file_exists'
             /\ file_data' = HeaderLine \o FormatLine(ev'.shoe)
             /\ shoe_list' = <<ev'.shoe>>)]_vars

\* C7: every Shoe of shoe_list has a cost >= 0 and a quantity >= 0.
C7_NonNegative ==
    \A i \in 1..Len(shoe_list) :
        shoe_list[i].cost >= 0 /\ shoe_list[i].quantity >= 0

\* C8: the Shoe re_stock picks has a quantity <= every quantity, the Shoe
\* highest_qty shows has a quantity >= every quantity, and each is the first
\* in list order of the Shoes with that quantity.
C8_MinMaxFirst ==
    /\ pc = "restock_amount" =>
          /\ lowest_quantity_shoe \in Lowest(shoe_list)
          /\ \A j \in Lowest(shoe_list) : lowest_quantity_shoe <= j
    /\ (Returned("highest_qty") /\ shoe_list # << >>) =>
          /\ ev.n \in Highest(shoe_list)
          /\ \A j \in Highest(shoe_list) : ev.n <= j

C8_Witness ==
    /\ Returned("highest_qty")
    /\ Len(shoe_list) >= 2
    /\ Cardinality(Highest(shoe_list)) >= 2
    /\ Cardinality(Lowest(shoe_list)) = 1

\* C9: search_shoe returns the first Shoe in list order whose code equals
\* the code typed when letter case is ignored, None exactly when there is no
\* such Shoe, and changes neither shoe_list nor the file.
C9_SearchFirstMatch ==
    [][(pc = "menu" /\ ev'.op = "search_shoe") =>
          LET M == { i \in 1..Len(shoe_list) :
                       Lower(shoe_list[i].code) = Lower(ev'.arg) }
          IN  /\ (M = {}) <=> (ev'.n = 0)
              /\ M # {} => (ev'.n \in M /\ \A j \in M : ev'.n <= j)
              /\ shoe_list' = shoe_list
              /\ file_data' = file_data
              /\ file_exists' = file_exists]_vars

C9_Witness ==
    /\ Returned("search_shoe")
    /\ Len(shoe_list) >= 2
    /\ ev.n = 1
    /\ shoe_list[1].code # ev.arg
    /\ shoe_list[2].code = ev.arg

\* C10: when the codes of the list were pairwise distinct before a
\* capture_shoes or a re_stock, they are pairwise distinct after it; the
\* code capture_shoes goes on with is the code of no Shoe of the list.
C10_CodesStayDistinct ==
    /\ ((Returned("capture_shoes") \/ Returned("re_stock"))
          /\ DistinctCodes(ev.before)) => DistinctCodes(shoe_list)
    /\ pc \in {"capture_product", "capture_cost", "capture_quantity"} =>
          \A i \in 1..Len(shoe_list) : shoe_list[i].code # code

C10_Witness ==
    /\ Returned("capture_shoes")
    /\ Len(ev.before) >= 2
    /\ DistinctCodes(ev.before)
    /\ shoe_list = Append(ev.before, ev.shoe)
    /\ \E i \in 1..Len(ev.before) :
          Lower(ev.before[i].code) = Lower(ev.shoe.code)

====
